---- MODULE Spec2Model ----
(***************************************************************************)
(* Model of the graph analysis engine of APP3-graphs:                      *)
(*   read_csv_graph, create_adjacency_matrix, find_leaders,                *)
(*   find_followers, find_best_followers and bfs_shortest_path             *)
(* (src/APP3_final.py, class SocialNetworkAnalyzer; src/APP3_v1.py holds   *)
(* the same functions at module level).                                    *)
(*                                                                         *)
(* A matrix is a sequence of rows, each a sequence of 0/1 cells; the cell  *)
(* numpy calls matrix[i][j] is matrix[i+1][j+1] here.  A field of an input *)
(* row is a string, written as the sequence of its characters.             *)
(***************************************************************************)
EXTENDS Integers, Sequences, FiniteSets, TLC

\* ---------------------------------------------------------------- bounds
\* largest matrix side drawn for the ranking and search specifications
MaxSize == 3
\* largest number of 1-cells in a drawn matrix
MaxOnes == 3
\* largest number of rows in a drawn input file
MaxRows == 2
\* largest number of edges in an edge list handed to the build step directly
MaxEdges == 2
\* largest top_n handed to a ranking
MaxTopN == 4

VARIABLES
    file_path,      \* self.file_path: "" (no file selected), "data" (a file
                    \* that can be read) or "unreadable" (opening or reading
                    \* it raises)
    rows,           \* the rows csv.reader yields for the input file
    directed,       \* the directed flag of the run
    nodes,          \* read_csv_graph: the node set returned
    edges,          \* read_csv_graph: the edge list returned
    parseErr,       \* read_csv_graph: the exception that ended the row loop, or ""
    matrix,         \* the adjacency matrix the analyses read
    buildErr,       \* create_adjacency_matrix: the exception raised, or ""
    topN,           \* find_leaders / find_best_followers: argument top_n
    ranking,        \* find_leaders / find_best_followers: the id list returned
    node,           \* find_followers: argument node
    followers,      \* find_followers: what the call returned or raised
    start,          \* bfs_shortest_path: argument start
    goal,           \* bfs_shortest_path: argument goal
    visited,        \* bfs_shortest_path: local set visited
    queue,          \* bfs_shortest_path: local deque of paths
    bfsResult,      \* bfs_shortest_path: what the call returned or raised
    expanded,       \* bfs_shortest_path: the nodes whose neighbours the loop
                    \* has enumerated, in order (a record of the passes made)
    saved,          \* save_matrix: the file last written, or NothingSaved
    pc              \* position of the run

inputVars == <<file_path, rows, directed>>
parseVars == <<nodes, edges, parseErr>>
buildVars == <<matrix, buildErr>>
rankVars  == <<topN, ranking, node, followers>>
bfsVars   == <<start, goal, visited, queue, bfsResult, expanded>>
exportVars == <<saved>>

vars == <<file_path, rows, directed, nodes, edges, parseErr, matrix, buildErr,
          topN, ranking, node, followers,
          start, goal, visited, queue, bfsResult, expanded, saved, pc>>

\* ------------------------------------------------------- numpy indexing
\* 0, 1, ..., n-1 as a sequence
Iota(n) == [k \in 1..n |-> k - 1]

\* numpy accepts an index i on an axis of length n when -n <= i < n
InBounds(i, n) == -n <= i /\ i < n

\* a negative index counts from the end of the axis
Wrap(i, n) == IF i < 0 THEN i + n ELSE i

\* matrix[i] for an index numpy accepts
RowOf(m, i) == m[Wrap(i, Len(m)) + 1]

\* np.where reading all but the last position of the row
Where1ButLast(row) == SelectSeq(Iota(Len(row) - 1), LAMBDA j : row[j + 1] = 1)

\* np.where(row == 1)[0]: the positions holding 1, ascending
Where1(row) == SelectSeq(Iota(Len(row)), LAMBDA j : row[j + 1] = 1)

\* ------------------------------------------------------ drawn matrices
Cells(n) == (0..(n - 1)) \X (0..(n - 1))

MatrixOf(n, ones) == [i \in 1..n |-> [j \in 1..n |->
                         IF <<i - 1, j - 1>> \in ones THEN 1 ELSE 0]]

Matrices == UNION { { MatrixOf(n, ones) :
                        ones \in { s \in SUBSET Cells(n) : Cardinality(s) <= MaxOnes } } :
                    n \in 1..MaxSize }

\* ids handed to a lookup on a matrix of side n: every id in range, the id n
\* just past the end, -1 (numpy counts it from the end) and -n-1 (too negative)
ArgsFor(n) == (-1..n) \cup {-n - 1}

\* ---------------------------------------------------- strings, int()
Digits == {"0", "1", "2", "3", "4", "5", "6", "7", "8", "9"}

DigitValue(c) ==
    CASE c = "0" -> 0 [] c = "1" -> 1 [] c = "2" -> 2 [] c = "3" -> 3
      [] c = "4" -> 4 [] c = "5" -> 5 [] c = "6" -> 6 [] c = "7" -> 7
      [] c = "8" -> 8 [] c = "9" -> 9

\* the value of a non-empty run of decimal digits
RECURSIVE DigitsValue(_)
DigitsValue(s) ==
    IF s = <<>> THEN 0
    ELSE 10 * DigitsValue(SubSeq(s, 1, Len(s) - 1)) + DigitValue(s[Len(s)])

\* int() ignores blanks around the number
RECURSIVE Strip(_)
Strip(s) ==
    IF s = <<>> THEN s
    ELSE IF s[1] = " " THEN Strip(Tail(s))
    ELSE IF s[Len(s)] = " " THEN Strip(SubSeq(s, 1, Len(s) - 1))
    ELSE s

\* int(s): an optional sign and decimal digits give [ok |-> TRUE, val |-> n];
\* anything else raises ValueError, [ok |-> FALSE]
ParseInt(s) ==
    LET t == Strip(s)
        signed == t # <<>> /\ t[1] \in {"+", "-"}
        body == IF signed THEN Tail(t) ELSE t
    IN  IF body = <<>> \/ \E i \in 1..Len(body) : body[i] \notin Digits
        THEN [ok |-> FALSE, val |-> 0]
        ELSE [ok |-> TRUE,
              val |-> IF signed /\ t[1] = "-" THEN 0 - DigitsValue(body)
                      ELSE DigitsValue(body)]

\* str.lower() on the letters the drawn fields use
LowerChar(c) == CASE c = "I" -> "i" [] c = "D" -> "d" [] OTHER -> c

Lower(s) == [i \in 1..Len(s) |-> LowerChar(s[i])]

\* 'not row or row[0].lower() == "id1"'
IsSkippedRow(row) == row = <<>> \/ Lower(row[1]) = <<"i", "d", "1">>

\* -------------------------------------------------------- drawn inputs
\* fields: three integers (one negative), a word, a header token
Fields == { <<"1">>, <<"2">>, <<"-", "1">>, <<"x">>, <<"I", "d", "1">> }

\* rows of no, one and two fields, and one row with a third column
Rows == {<<>>} \cup { <<f>> : f \in Fields } \cup (Fields \X Fields)
            \cup { << <<"2">>, <<"1">>, <<"x">> >> }

RowSeqs == UNION { [1..n -> Rows] : n \in 0..MaxRows }

\* ------------------------------------------------------ read_csv_graph
\* 'edges.append((u, v))' only: the reverse edge is never added
AddEdgeOneWay(es, u, v, dir) == Append(es, <<u, v>>)

\* 'edges.append((u, v))' and, when not directed, 'edges.append((v, u))'
AddEdge(es, u, v, dir) ==
    IF dir THEN Append(es, <<u, v>>)
    ELSE Append(Append(es, <<u, v>>), <<v, u>>)

\* the loop 'for row in reader' from row k on, with the nodes and edges
\* collected so far.  int(row[0]) is evaluated before row[1] is read: a
\* ValueError is caught inside the loop and the row skipped, an IndexError
\* (row[1] of a one-field row) is not and ends the loop.
RECURSIVE ReadRows(_, _, _, _, _)
ReadRows(rs, k, dir, ns, es) ==
    IF k > Len(rs) THEN [err |-> "", nodes |-> ns, edges |-> es]
    ELSE LET row == rs[k]
         IN  IF IsSkippedRow(row) THEN ReadRows(rs, k + 1, dir, ns, es)
             ELSE IF ~ParseInt(row[1]).ok THEN ReadRows(rs, k + 1, dir, ns, es)
             ELSE IF Len(row) < 2 THEN [err |-> "IndexError", nodes |-> ns, edges |-> es]
             ELSE IF ~ParseInt(row[2]).ok THEN ReadRows(rs, k + 1, dir, ns, es)
             ELSE LET u == ParseInt(row[1]).val
                      v == ParseInt(row[2]).val
                  IN  ReadRows(rs, k + 1, dir, ns \cup {u, v}, AddEdge(es, u, v, dir))

\* read_csv_graph of SocialNetworkAnalyzer: 'return list(nodes), edges', or
\* 'return [], []' from the handler of any exception that left the loop
\* (the module-level read_csv_graph of APP3_v1.py lets that exception escape)
ReadCsvGraph(rs, dir) ==
    LET r == ReadRows(rs, 1, dir, {}, <<>>)
    IN  IF r.err = "" THEN r ELSE [err |-> r.err, nodes |-> {}, edges |-> <<>>]

\* the call self.read_csv_graph(self.file_path, directed)
Parse ==
    /\ pc = "start"
    /\ LET r == ReadCsvGraph(rows, directed)
       IN  /\ nodes' = r.nodes
           /\ edges' = r.edges
           /\ parseErr' = r.err
    /\ pc' = "parsed"
    /\ UNCHANGED <<inputVars, exportVars, buildVars, rankVars, bfsVars>>

\* 'if not self.nodes: ... return': nothing is built
NoData ==
    /\ pc = "parsed"
    /\ nodes = {}
    /\ pc' = "nodata"
    /\ UNCHANGED <<inputVars, exportVars, parseVars, buildVars, rankVars, bfsVars>>

\* --------------------------------------------- create_adjacency_matrix
\* 'self.matrix = None'.  A matrix built from parsed nodes has at least one
\* row, so the empty sequence is free to stand for None.
NoMatrix == <<>>

\* no file has been written by save_matrix
NothingSaved == [format |-> "", matrix |-> NoMatrix]

Max(S) == CHOOSE x \in S : \A y \in S : y <= x

\* np.zeros((size, size), dtype=int)
Zeros(size) == [i \in 1..size |-> [j \in 1..size |-> 0]]

\* 'matrix[u][v] = 1' writing 1 into the cell next to the one addressed
SetCellShifted(m, u, v) ==
    LET i == Wrap(u, Len(m)) + 1
        j == ((Wrap(v, Len(m)) + 1) % Len(m)) + 1
    IN  [m EXCEPT ![i] = [m[i] EXCEPT ![j] = 1]]

\* 'matrix[u][v] = 1' for indices numpy accepts
SetCell(m, u, v) ==
    LET i == Wrap(u, Len(m)) + 1
        j == Wrap(v, Len(m)) + 1
    IN  [m EXCEPT ![i] = [m[i] EXCEPT ![j] = 1]]

\* the loop 'for u, v in edges: matrix[u][v] = 1' from edge k on
RECURSIVE SetCells(_, _, _)
SetCells(m, es, k) ==
    IF k > Len(es) THEN [err |-> "", matrix |-> m]
    ELSE LET u == es[k][1]
             v == es[k][2]
         IN  IF ~InBounds(u, Len(m)) \/ ~InBounds(v, Len(m))
             THEN [err |-> "IndexError", matrix |-> <<>>]
             ELSE SetCells(SetCell(m, u, v), es, k + 1)

\* create_adjacency_matrix(nodes, edges): max() of no nodes and a negative
\* size both raise ValueError
CreateAdjacencyMatrix(ns, es) ==
    IF ns = {} THEN [err |-> "ValueError", matrix |-> <<>>]
    ELSE LET size == Max(ns) + 1
         IN  IF size < 0 THEN [err |-> "ValueError", matrix |-> <<>>]
             ELSE SetCells(Zeros(size), es, 1)

\* create_adjacency_matrix returns
Build ==
    /\ pc = "parsed"
    /\ LET r == CreateAdjacencyMatrix(nodes, edges)
       IN  /\ r.err = ""
           /\ matrix' = r.matrix
    /\ pc' = "ready"
    /\ UNCHANGED <<inputVars, exportVars, parseVars, buildErr, rankVars, bfsVars>>

\* create_adjacency_matrix raises
BuildRaise ==
    /\ pc = "parsed"
    /\ LET r == CreateAdjacencyMatrix(nodes, edges)
       IN  /\ r.err # ""
           /\ buildErr' = r.err
    /\ pc' = "failed"
    /\ UNCHANGED <<inputVars, exportVars, parseVars, matrix, rankVars, bfsVars>>

\* 'self.matrix = self.create_adjacency_matrix(self.nodes, self.edges)',
\* reached only past the 'if not self.nodes' return
AnalysisBuild == nodes # {} /\ Build

\* the same call raising into the handler of run_analysis
AnalysisBuildRaise == nodes # {} /\ BuildRaise

\* ---------------------------- find_leaders, find_best_followers
RECURSIVE SumSeq(_)
SumSeq(s) == IF s = <<>> THEN 0 ELSE Head(s) + SumSeq(Tail(s))

\* matrix[:, j]
ColumnOf(m, j) == [i \in 1..Len(m) |-> m[i][Wrap(j, Len(m)) + 1]]

\* np.sum(matrix, axis=0): one sum per column
SumAxis0(m) == [j \in 1..Len(m) |-> SumSeq(ColumnOf(m, j - 1))]

\* np.sum(matrix, axis=1): one sum per row
SumAxis1(m) == [i \in 1..Len(m) |-> SumSeq(m[i])]

\* -incoming
Negate(v) == [i \in 1..Len(v) |-> 0 - v[i]]

\* np.argsort(keys) with the default kind: the orders of the positions
\* 0..n-1 that put the keys in ascending order.  The default sort is not a
\* stable one, so positions holding equal keys may come out in any order.
ArgSorts(keys) ==
    { p \in [1..Len(keys) -> 0..(Len(keys) - 1)] :
        /\ \A i, j \in 1..Len(keys) : i # j => p[i] # p[j]
        /\ \A i, j \in 1..Len(keys) : i < j => keys[p[i] + 1] <= keys[p[j] + 1] }

\* a[:n + 1]
SliceOneMore(a, n) ==
    IF n + 1 >= 0 THEN SubSeq(a, 1, IF n + 1 < Len(a) THEN n + 1 ELSE Len(a))
    ELSE SubSeq(a, 1, Len(a) + n + 1)

\* a[:n]
Slice(a, n) ==
    IF n >= 0 THEN SubSeq(a, 1, IF n < Len(a) THEN n ELSE Len(a))
    ELSE SubSeq(a, 1, Len(a) + n)

\* the vector find_leaders ranks by: column sums when directed, else row sums
LeaderScores(m, dir) == IF dir THEN SumAxis0(m) ELSE SumAxis1(m)

\* the vector find_best_followers ranks by
FollowerScores(m) == SumAxis1(m)

\* find_leaders(matrix, directed, top_n)
FindLeaders ==
    /\ pc = "ready"
    /\ \E n \in 0..MaxTopN :
         \E p \in ArgSorts(Negate(LeaderScores(matrix, directed))) :
            /\ topN' = n
            /\ ranking' = Slice(p, n)
    /\ pc' = "leaders"
    /\ UNCHANGED <<inputVars, exportVars, parseVars, buildVars, node, followers, bfsVars>>

\* find_best_followers(matrix, top_n)
FindBestFollowers ==
    /\ pc = "ready"
    /\ \E n \in 0..MaxTopN :
         \E p \in ArgSorts(Negate(FollowerScores(matrix))) :
            /\ topN' = n
            /\ ranking' = Slice(p, n)
    /\ pc' = "bestFollowers"
    /\ UNCHANGED <<inputVars, exportVars, parseVars, buildVars, node, followers, bfsVars>>

\* ------------------------------------------------------ find_followers
\* the row is read in both modes
FollowersLineRowOnly(m, nd, dir) == RowOf(m, nd)

\* matrix[:, node] when directed, matrix[node, :] when not
FollowersLine(m, nd, dir) == IF dir THEN ColumnOf(m, nd) ELSE RowOf(m, nd)

\* find_followers(matrix, node, directed) returns
FindFollowers ==
    /\ pc = "ready"
    /\ \E nd \in ArgsFor(Len(matrix)) :
         /\ InBounds(nd, Len(matrix))
         /\ node' = nd
         /\ followers' = [kind |-> "list",
                          ids |-> Where1(FollowersLine(matrix, nd, directed))]
    /\ pc' = "followers"
    /\ UNCHANGED <<inputVars, exportVars, parseVars, buildVars, topN, ranking, bfsVars>>

\* find_followers(matrix, node, directed) raises: numpy rejects the index
FindFollowersRaise ==
    /\ pc = "ready"
    /\ \E nd \in ArgsFor(Len(matrix)) :
         /\ ~InBounds(nd, Len(matrix))
         /\ node' = nd
         /\ followers' = [kind |-> "IndexError", ids |-> <<>>]
    /\ pc' = "followers"
    /\ UNCHANGED <<inputVars, exportVars, parseVars, buildVars, topN, ranking, bfsVars>>

\* ------------------------------------------------- bfs_shortest_path
Pending == [kind |-> "pending", path |-> <<>>]

\* find_followers has not been called
NoFollowers == [kind |-> "pending", ids |-> <<>>]

\* queue.popleft(): the path taken and the queue left
PopPath(q) == [path |-> Head(q), rest |-> Tail(q)]

\* the guard taken on every pass, whatever visited holds
NotVisitedEver(n, vis) == TRUE

\* the guard 'if node not in visited'
NotVisited(n, vis) == n \notin vis

\* the loop returning 'path' where the code returns 'new_path'
RECURSIVE ExpandLoopReturnsPath(_, _, _, _, _)
ExpandLoopReturnsPath(path, neighbors, k, g, q) ==
    IF k > Len(neighbors)
    THEN [found |-> FALSE, path |-> <<>>, queue |-> q]
    ELSE IF neighbors[k] = g
         THEN [found |-> TRUE, path |-> path, queue |-> q]
         ELSE ExpandLoopReturnsPath(path, neighbors, k + 1, g,
                                    Append(q, Append(path, neighbors[k])))

\* the loop 'for neighbor in neighbors' from its k-th element on: each new
\* path is appended to the queue unless its last node is the goal, in which
\* case the loop returns it at once
RECURSIVE ExpandLoop(_, _, _, _, _)
ExpandLoop(path, neighbors, k, g, q) ==
    IF k > Len(neighbors)
    THEN [found |-> FALSE, path |-> <<>>, queue |-> q]
    ELSE LET new_path == Append(path, neighbors[k])
         IN  IF neighbors[k] = g
             THEN [found |-> TRUE, path |-> new_path, queue |-> q]
             ELSE ExpandLoop(path, neighbors, k + 1, g, Append(q, new_path))

\* 'if start == goal: return [start]'
BfsReturnStart ==
    /\ pc = "call"
    /\ start = goal
    /\ bfsResult' = [kind |-> "path", path |-> <<start>>]
    /\ pc' = "done"
    /\ UNCHANGED <<inputVars, exportVars, parseVars, buildVars, rankVars, start, goal, visited, queue, expanded>>

\* 'visited = set(); queue = deque([[start]])'
BfsEnter ==
    /\ pc = "call"
    /\ start # goal
    /\ visited' = {}
    /\ queue' = << <<start>> >>
    /\ pc' = "loop"
    /\ UNCHANGED <<inputVars, exportVars, parseVars, buildVars, rankVars, start, goal, bfsResult, expanded>>

\* one pass of 'while queue' whose path ends in a node seen before
BfsSkip ==
    /\ pc = "loop"
    /\ queue # <<>>
    /\ LET p == PopPath(queue)
           last == p.path[Len(p.path)]   \* node = path[-1]
       IN  /\ ~NotVisited(last, visited)
           /\ queue' = p.rest
    /\ UNCHANGED <<inputVars, exportVars, parseVars, buildVars, rankVars, start, goal, visited, bfsResult, expanded, pc>>

\* one pass of 'while queue' that reads matrix[node] outside the matrix
BfsRaise ==
    /\ pc = "loop"
    /\ queue # <<>>
    /\ LET p == PopPath(queue)
           last == p.path[Len(p.path)]   \* node = path[-1]
       IN  /\ NotVisited(last, visited)
           /\ ~InBounds(last, Len(matrix))
           /\ queue' = p.rest
    /\ bfsResult' = [kind |-> "IndexError", path |-> <<>>]
    /\ pc' = "done"
    /\ UNCHANGED <<inputVars, exportVars, parseVars, buildVars, rankVars, start, goal, visited, expanded>>

\* one pass of 'while queue' that enumerates the neighbours of a new node
BfsExpand ==
    /\ pc = "loop"
    /\ queue # <<>>
    /\ LET p == PopPath(queue)
           last == p.path[Len(p.path)]   \* node = path[-1]
       IN  /\ NotVisited(last, visited)
           /\ InBounds(last, Len(matrix))
           /\ expanded' = Append(expanded, last)
           /\ LET r == ExpandLoop(p.path, Where1(RowOf(matrix, last)), 1, goal, p.rest)
              IN  IF r.found
                  THEN /\ bfsResult' = [kind |-> "path", path |-> r.path]
                       /\ pc' = "done"
                       /\ queue' = r.queue
                       /\ UNCHANGED visited
                  ELSE /\ queue' = r.queue
                       /\ visited' = visited \cup {last}
                       /\ UNCHANGED <<bfsResult, pc>>
    /\ UNCHANGED <<inputVars, exportVars, parseVars, buildVars, rankVars, start, goal>>

\* 'while queue' ends: 'return None'
BfsReturnNone ==
    /\ pc = "loop"
    /\ queue = <<>>
    /\ bfsResult' = [kind |-> "None", path |-> <<>>]
    /\ pc' = "done"
    /\ UNCHANGED <<inputVars, exportVars, parseVars, buildVars, rankVars, start, goal, visited, queue, expanded>>

\* the variables a specification does not use keep these values
IdleInput == file_path = "" /\ rows = <<>> /\ directed = TRUE
IdleParse == nodes = {} /\ edges = <<>> /\ parseErr = ""
IdleRank  == topN = 0 /\ ranking = <<>> /\ node = 0 /\ followers = NoFollowers
IdleExport == saved = NothingSaved
IdleBfs   == /\ start = 0 /\ goal = 0 /\ visited = {} /\ queue = <<>>
             /\ bfsResult = Pending /\ expanded = <<>>

\* bfs_shortest_path called on any matrix, start and goal
InitBfs ==
    /\ IdleInput /\ IdleParse /\ IdleRank /\ IdleExport
    /\ buildErr = ""
    /\ matrix \in Matrices
    /\ start \in ArgsFor(Len(matrix))
    /\ goal \in ArgsFor(Len(matrix))
    /\ visited = {}
    /\ queue = <<>>
    /\ bfsResult = Pending
    /\ expanded = <<>>
    /\ pc = "call"

NextBfs ==
    \/ BfsReturnStart
    \/ BfsEnter
    \/ BfsSkip
    \/ BfsRaise
    \/ BfsExpand
    \/ BfsReturnNone

SpecBfs == InitBfs /\ [][NextBfs]_vars

\* the search is one sequential call: it keeps running until it returns
FairSpecBfs == SpecBfs /\ WF_vars(NextBfs)

\* ------------------------------------------------------ specifications
\* one analysis of an input file: parse, build, then one ranking
InitAnalysis ==
    /\ file_path = "data"
    /\ rows \in RowSeqs
    /\ directed \in BOOLEAN
    /\ IdleParse /\ IdleRank /\ IdleBfs /\ IdleExport
    /\ matrix = NoMatrix
    /\ buildErr = ""
    /\ pc = "start"

NextAnalysis ==
    \/ Parse
    \/ NoData
    \/ AnalysisBuild
    \/ AnalysisBuildRaise
    \/ FindLeaders
    \/ FindBestFollowers

SpecAnalysis == InitAnalysis /\ [][NextAnalysis]_vars

\* node ids handed to the build step directly
NodeIds == -1..(MaxSize - 1)

EdgeSeqs == UNION { [1..n -> NodeIds \X NodeIds] : n \in 0..MaxEdges }

\* create_adjacency_matrix called on any node set and edge list
InitBuild ==
    /\ IdleInput /\ IdleRank /\ IdleBfs /\ IdleExport
    /\ nodes \in SUBSET NodeIds
    /\ edges \in EdgeSeqs
    /\ parseErr = ""
    /\ matrix = <<>>
    /\ buildErr = ""
    /\ pc = "parsed"

NextBuild ==
    \/ Build
    \/ BuildRaise

SpecBuild == InitBuild /\ [][NextBuild]_vars

\* the rankings and find_followers called on any matrix
InitRank ==
    /\ file_path = ""
    /\ rows = <<>>
    /\ directed \in BOOLEAN
    /\ IdleParse /\ IdleRank /\ IdleBfs /\ IdleExport
    /\ matrix \in Matrices
    /\ buildErr = ""
    /\ pc = "ready"

NextRank ==
    \/ FindLeaders
    \/ FindBestFollowers
    \/ FindFollowers
    \/ FindFollowersRaise

SpecRank == InitRank /\ [][NextRank]_vars

\* ------------------------------------------------------------ session
\* The window of SocialNetworkAnalyzer: its handlers run one at a time, each
\* to its end, in any order the user picks.

\* the files the user can pick: empty, or one row
SessionFiles == {<<>>} \cup { <<r>> : r \in Rows }

\* select_file, a file chosen in the dialog: 'self.file_path = file_path'
SelectFile ==
    /\ pc = "idle"
    /\ \E f \in SessionFiles : file_path' = "data" /\ rows' = f
    /\ UNCHANGED <<directed, parseVars, buildVars, rankVars, bfsVars, exportVars, pc>>

\* select_file, a path chosen that cannot be read as a table: open() raises,
\* or the name ends with neither .csv nor .txt and 'reader' is unbound
SelectUnreadableFile ==
    /\ pc = "idle"
    /\ file_path' = "unreadable"
    /\ rows' = <<>>
    /\ UNCHANGED <<directed, parseVars, buildVars, rankVars, bfsVars, exportVars, pc>>

\* select_file, dialog cancelled: 'if file_path:' is false
SelectFileCancel ==
    /\ pc = "idle"
    /\ UNCHANGED vars

\* run_analysis, 'if not self.file_path: ... return'
RunAnalysisNoFile ==
    /\ pc = "idle"
    /\ file_path = ""
    /\ UNCHANGED vars

\* run_analysis, read_csv_graph raised inside: its handler returns [], [],
\* they are stored, and 'if not self.nodes: ... return' leaves
RunAnalysisReadFails ==
    /\ pc = "idle"
    /\ \E d \in BOOLEAN :
        /\ directed' = d
        /\ \/ /\ file_path = "unreadable"
              /\ parseErr' = "Exception"
           \/ /\ file_path = "data"
              /\ ReadCsvGraph(rows, d).err # ""
              /\ parseErr' = ReadCsvGraph(rows, d).err
    /\ nodes' = {}
    /\ edges' = <<>>
    /\ UNCHANGED <<file_path, rows, buildVars, rankVars, bfsVars, exportVars, pc>>

\* run_analysis, the file is read and holds no edge:
\* 'if not self.nodes: ... return'
RunAnalysisNoData ==
    /\ pc = "idle"
    /\ file_path = "data"
    /\ \E d \in BOOLEAN :
        LET r == ReadCsvGraph(rows, d) IN
        /\ r.err = ""
        /\ r.nodes = {}
        /\ directed' = d
        /\ nodes' = r.nodes
        /\ edges' = r.edges
        /\ parseErr' = ""
    /\ UNCHANGED <<file_path, rows, buildVars, rankVars, bfsVars, exportVars, pc>>

\* run_analysis, create_adjacency_matrix raises: 'except Exception' of
\* run_analysis shows the message; self.nodes and self.edges are assigned
\* already, self.matrix is not
RunAnalysisBuildRaises ==
    /\ pc = "idle"
    /\ file_path = "data"
    /\ \E d \in BOOLEAN :
        LET r == ReadCsvGraph(rows, d)
            b == CreateAdjacencyMatrix(r.nodes, r.edges) IN
        /\ r.err = ""
        /\ r.nodes # {}
        /\ b.err # ""
        /\ directed' = d
        /\ nodes' = r.nodes
        /\ edges' = r.edges
        /\ parseErr' = ""
        /\ buildErr' = b.err
    /\ UNCHANGED <<file_path, rows, matrix, rankVars, bfsVars, exportVars, pc>>

\* run_analysis, the matrix is built and stored; what follows reads it
RunAnalysis ==
    /\ pc = "idle"
    /\ file_path = "data"
    /\ \E d \in BOOLEAN :
        LET r == ReadCsvGraph(rows, d)
            b == CreateAdjacencyMatrix(r.nodes, r.edges) IN
        /\ r.err = ""
        /\ r.nodes # {}
        /\ b.err = ""
        /\ directed' = d
        /\ nodes' = r.nodes
        /\ edges' = r.edges
        /\ parseErr' = ""
        /\ matrix' = b.matrix
        /\ buildErr' = ""
    /\ UNCHANGED <<file_path, rows, rankVars, bfsVars, exportVars, pc>>

\* save_matrix, 'if self.matrix is None: ... return'
SaveMatrixNone ==
    /\ pc = "idle"
    /\ matrix = NoMatrix
    /\ UNCHANGED vars

\* save_matrix, np.savetxt writes self.matrix, comma separated for a .csv name
SaveMatrix ==
    /\ pc = "idle"
    /\ matrix # NoMatrix
    /\ \E fmt \in {"csv", "txt"} : saved' = [format |-> fmt, matrix |-> matrix]
    /\ UNCHANGED <<inputVars, parseVars, buildVars, rankVars, bfsVars, pc>>

\* save_matrix, dialog cancelled or np.savetxt raises: nothing is written
SaveMatrixNotWritten ==
    /\ pc = "idle"
    /\ matrix # NoMatrix
    /\ UNCHANGED vars

\* __init__: no file, no nodes, no edges, no matrix
InitSession ==
    /\ IdleInput /\ IdleParse /\ IdleRank /\ IdleBfs /\ IdleExport
    /\ matrix = NoMatrix
    /\ buildErr = ""
    /\ pc = "idle"

NextSession ==
    \/ SelectFile
    \/ SelectUnreadableFile
    \/ SelectFileCancel
    \/ RunAnalysisNoFile
    \/ RunAnalysisReadFails
    \/ RunAnalysisNoData
    \/ RunAnalysisBuildRaises
    \/ RunAnalysis
    \/ SaveMatrixNone
    \/ SaveMatrix
    \/ SaveMatrixNotWritten

SpecSession == InitSession /\ [][NextSession]_vars

\* ------------------------------------------------ reference definitions
\* an id that names a node of a matrix of side n
InRange(i, n) == 0 <= i /\ i < n

\* the nodes one edge away from a node of S
Successors(m, S) == { v \in 0..(Len(m) - 1) :
                         \E u \in S \cap (0..(Len(m) - 1)) : m[u + 1][v + 1] = 1 }

\* the nodes at the end of a walk of exactly k edges from s
RECURSIVE WalkEnds(_, _, _)
WalkEnds(m, s, k) == IF k = 0 THEN {s} ELSE Successors(m, WalkEnds(m, s, k - 1))

\* the edge counts (up to the side of m) of the walks from s to g
WalkLengths(m, s, g) == { k \in 0..Len(m) : g \in WalkEnds(m, s, k) }

Reachable(m, s, g) == WalkLengths(m, s, g) # {}

Distance(m, s, g) == CHOOSE k \in WalkLengths(m, s, g) :
                         \A l \in WalkLengths(m, s, g) : k <= l

\* p is a sequence of nodes of m joined by edges of m
IsWalk(m, p) ==
    /\ \A i \in 1..Len(p) : InRange(p[i], Len(m))
    /\ \A i \in 1..(Len(p) - 1) : m[p[i] + 1][p[i + 1] + 1] = 1

SearchArgsValid ==
    /\ InRange(start, Len(matrix))
    /\ InRange(goal, Len(matrix))
    /\ start # goal

\* ---------------------------------------------------------------- claims
\* C1: for in-range start # goal with goal reachable, the search returns a
\* path that begins with start, ends with goal, follows edges of the matrix
\* and has the minimum edge count among all walks from start to goal.
C1_ShortestPath ==
    (pc = "done" /\ SearchArgsValid /\ Reachable(matrix, start, goal)) =>
        /\ bfsResult.kind = "path"
        /\ Len(bfsResult.path) >= 2
        /\ bfsResult.path[1] = start
        /\ bfsResult.path[Len(bfsResult.path)] = goal
        /\ IsWalk(matrix, bfsResult.path)
        /\ Len(bfsResult.path) - 1 = Distance(matrix, start, goal)

\* a search that returned a two-edge path while another path waited in the
\* queue and a longer walk to the goal existed
C1_Witness ==
    /\ pc = "done"
    /\ SearchArgsValid
    /\ bfsResult.kind = "path"
    /\ Len(bfsResult.path) = 3
    /\ queue # <<>>
    /\ \E k \in 3..Len(matrix) : goal \in WalkEnds(matrix, start, k)

\* C2: the search fails with an index-out-of-range error whenever start or
\* goal is outside [0, size); it never returns a path or absent then.
C2_OutOfRangeFails ==
    (pc = "done" /\ (~InRange(start, Len(matrix)) \/ ~InRange(goal, Len(matrix)))) =>
        bfsResult.kind = "IndexError"

\* C4: for in-range start # goal the search terminates, without an error,
\* and returns None if and only if no walk leads from start to goal.
C4_TerminatesNoneIffUnreachable ==
    SearchArgsValid ~>
        (/\ pc = "done"
         /\ bfsResult.kind \in {"path", "None"}
         /\ (bfsResult.kind = "None" <=> ~Reachable(matrix, start, goal)))

\* a search that ended with None on a matrix with a cycle through start,
\* after meeting an already visited node
C4_Witness ==
    /\ pc = "done"
    /\ SearchArgsValid
    /\ bfsResult.kind = "None"
    /\ Cardinality(visited) >= 2
    /\ \E k \in 1..Len(matrix) : start \in WalkEnds(matrix, start, k)

\* the set of elements of a sequence
Range(a) == { a[i] : i \in 1..Len(a) }

NoRepeats(a) == \A i, j \in 1..Len(a) : i # j => a[i] # a[j]

Min2(a, b) == IF a < b THEN a ELSE b

\* a row whose first two fields both read as integers
RowIsValid(row) == Len(row) >= 2 /\ ParseInt(row[1]).ok /\ ParseInt(row[2]).ok

\* the edges the valid rows of rs contribute, in input order
RECURSIVE ExpectedEdges(_, _)
ExpectedEdges(rs, dir) ==
    IF rs = <<>> THEN <<>>
    ELSE LET row == Head(rs)
             u == ParseInt(row[1]).val
             v == ParseInt(row[2]).val
         IN  IF ~RowIsValid(row) THEN ExpectedEdges(Tail(rs), dir)
             ELSE (IF dir THEN << <<u, v>> >> ELSE << <<u, v>>, <<v, u>> >>)
                      \o ExpectedEdges(Tail(rs), dir)

Endpoints(es) == { es[k][1] : k \in 1..Len(es) } \cup { es[k][2] : k \in 1..Len(es) }

\* C3: parse never aborts on a malformed row: every row whose first two
\* fields cannot both be parsed as integers, a row with fewer than two
\* fields included, is skipped, and the nodes and edges returned are those
\* of the remaining valid rows, in input order.
C3_MalformedRowsSkipped ==
    pc # "start" =>
        /\ parseErr = ""
        /\ edges = ExpectedEdges(rows, directed)
        /\ nodes = Endpoints(ExpectedEdges(rows, directed))

\* C9: every node id parse returns, in the node set or in an edge, is a
\* non-negative integer, and the node set is the union of the endpoints of
\* the returned edges.
C9_NodeIdsNonNegative ==
    pc # "start" =>
        /\ \A n \in nodes : n >= 0
        /\ \A n \in Endpoints(edges) : n >= 0
        /\ nodes = Endpoints(edges)

\* the number of edges into, and out of, node v of m
InDegree(m, v) == Cardinality({ u \in 0..(Len(m) - 1) : m[u + 1][v + 1] = 1 })
OutDegree(m, v) == Cardinality({ u \in 0..(Len(m) - 1) : m[v + 1][u + 1] = 1 })

\* the score the ranking that just ran orders by
ClaimedScore(v) ==
    IF pc = "leaders" /\ directed THEN InDegree(matrix, v) ELSE OutDegree(matrix, v)

\* the nodes ranked before v: a higher score, or the same score and a lower id
RankedBefore(v) ==
    { u \in 0..(Len(matrix) - 1) :
        \/ ClaimedScore(u) > ClaimedScore(v)
        \/ (ClaimedScore(u) = ClaimedScore(v) /\ u < v) }

\* C5: find_leaders and find_best_followers return the topN highest-scoring
\* node ids by descending score, equal scores by ascending node id.
C5_RankingOrder ==
    pc \in {"leaders", "bestFollowers"} =>
        /\ Len(ranking) = Min2(topN, Len(matrix))
        /\ \A k \in 1..Len(ranking) : Cardinality(RankedBefore(ranking[k])) = k - 1

\* C6 as stated: for a matrix built from a parsed node set, a ranking holds
\* only ids of that node set, no id twice, and at most min(topN, nodeCount)
\* ids.
C6_RankingWithinNodeSet ==
    pc \in {"leaders", "bestFollowers"} =>
        /\ Range(ranking) \subseteq nodes
        /\ NoRepeats(ranking)
        /\ Len(ranking) <= Min2(topN, Cardinality(nodes))

\* C6 as amended: for a matrix built from a parsed node set, a ranking holds
\* only ids of the index set 0..size-1 of the matrix, size = max(nodes)+1,
\* no id twice, and at most min(topN, size) ids.
C6_RankingWithinMatrix ==
    pc \in {"leaders", "bestFollowers"} =>
        /\ Len(matrix) = Max(nodes) + 1
        /\ Range(ranking) \subseteq 0..Max(nodes)
        /\ NoRepeats(ranking)
        /\ Len(ranking) <= Min2(topN, Max(nodes) + 1)

\* a ranking asked for more ids than the input named, holding an id the
\* input never named
C6_Witness ==
    /\ pc \in {"leaders", "bestFollowers"}
    /\ topN > Cardinality(nodes)
    /\ Len(ranking) > Cardinality(nodes)
    /\ ~(Range(ranking) \subseteq nodes)

BuildArgsValid ==
    /\ nodes # {}
    /\ \A n \in nodes : n >= 0
    /\ Endpoints(edges) \subseteq nodes

\* the first occurrence of each edge, in order
RECURSIVE Dedup(_)
Dedup(es) ==
    IF es = <<>> THEN <<>>
    ELSE LET front == SubSeq(es, 1, Len(es) - 1)
         IN  IF es[Len(es)] \in Range(front) THEN Dedup(front)
             ELSE Append(Dedup(front), es[Len(es)])

\* C7: for a non-empty set of non-negative ids and edges over those ids,
\* build returns a square matrix of side max(nodes)+1 whose cell (u,v) is 1
\* exactly when (u,v) occurs in the edge list and 0 otherwise; repeated
\* edges change nothing.
C7_BuildMatrix ==
    (pc # "parsed" /\ BuildArgsValid) =>
        /\ pc = "ready"
        /\ buildErr = ""
        /\ Len(matrix) = Max(nodes) + 1
        /\ \A i \in 1..Len(matrix) : Len(matrix[i]) = Len(matrix)
        /\ \A u, v \in 0..(Len(matrix) - 1) :
              matrix[u + 1][v + 1] = IF <<u, v>> \in Range(edges) THEN 1 ELSE 0
        /\ matrix = CreateAdjacencyMatrix(nodes, Dedup(edges)).matrix

\* a matrix built from an edge list that repeats an edge between two nodes
C7_Witness ==
    /\ pc = "ready"
    /\ BuildArgsValid
    /\ Len(edges) = MaxEdges
    /\ edges[1] = edges[2]
    /\ edges[1][1] # edges[1][2]
    /\ Cardinality(nodes) >= 2

IsSymmetric(m) == \A i, j \in 1..Len(m) : m[i][j] = m[j][i]

\* every row is a skipped one (empty, header) or names two non-negative ids
ValidEdgeList ==
    \A k \in 1..Len(rows) :
        \/ IsSkippedRow(rows[k])
        \/ /\ RowIsValid(rows[k])
           /\ ParseInt(rows[k][1]).val >= 0
           /\ ParseInt(rows[k][2]).val >= 0

\* C8 as stated: the matrix from parse then build is symmetric if and only
\* if the input was parsed with directed = false.
C8_SymmetricIffUndirected ==
    (pc = "ready" /\ ValidEdgeList) => (IsSymmetric(matrix) <=> ~directed)

\* C8 as amended: parsed with directed = false the matrix is symmetric;
\* parsed with directed = true it is symmetric exactly when the edge list
\* holds the reverse of each of its edges.
C8_UndirectedSymmetric ==
    (pc = "ready" /\ ValidEdgeList) =>
        /\ ~directed => IsSymmetric(matrix)
        /\ directed => (IsSymmetric(matrix) <=>
                          \A e \in Range(edges) : <<e[2], e[1]>> \in Range(edges))

\* an undirected run whose input names an edge between two different nodes
C8_Witness ==
    /\ pc = "ready"
    /\ ValidEdgeList
    /\ ~directed
    /\ \E e \in Range(edges) : e[1] # e[2] /\ matrix[e[2] + 1][e[1] + 1] = 1

\* C10: find_followers returns exactly {v : matrix[v][node] = 1} in directed
\* mode and {v : matrix[node][v] = 1} in undirected mode for node in
\* [0, size), and fails with an index error for node >= size.
C10_Followers ==
    pc = "followers" =>
        /\ InRange(node, Len(matrix)) =>
              /\ followers.kind = "list"
              /\ NoRepeats(followers.ids)
              /\ Range(followers.ids) =
                    { v \in 0..(Len(matrix) - 1) :
                        IF directed THEN matrix[v + 1][node + 1] = 1
                        ELSE matrix[node + 1][v + 1] = 1 }
        /\ node >= Len(matrix) => followers.kind = "IndexError"

\* a directed lookup on a node whose column and row differ
C10_Witness ==
    /\ pc = "followers"
    /\ InRange(node, Len(matrix))
    /\ directed
    /\ followers.ids # <<>>
    /\ ColumnOf(matrix, node) # RowOf(matrix, node)

\* the last node of the i-th path waiting in the queue
QueuedEnd(i) == queue[i][Len(queue[i])]

\* C11 as stated: the first-discovery check is made at enqueue time: a node
\* already discovered is not enqueued again, so the queue never holds two
\* paths ending at the same node, never holds a path ending at a node
\* already expanded, and no node is expanded more than once.
C11_DiscoveredOnceInQueue ==
    SearchArgsValid =>
        /\ \A i, j \in 1..Len(queue) : i # j => QueuedEnd(i) # QueuedEnd(j)
        /\ \A i \in 1..Len(queue) : QueuedEnd(i) \notin visited
        /\ NoRepeats(expanded)

\* C11 as amended: the check is made when a path is taken from the queue: a
\* path whose last node is in visited is dropped there, so no node is
\* expanded more than once and every node in visited has been expanded;
\* the queue itself may hold paths ending at nodes already expanded.
C11_ExpandedOnce ==
    InRange(start, Len(matrix)) =>
        /\ NoRepeats(expanded)
        /\ visited \subseteq Range(expanded)
        /\ \A i \in 1..Len(expanded) : InRange(expanded[i], Len(matrix))

\* a search in which two nodes were expanded and a path ending at one of
\* them waits in the queue
C11_Witness ==
    /\ pc = "loop"
    /\ SearchArgsValid
    /\ Len(expanded) >= 2
    /\ \E i \in 1..Len(queue) : QueuedEnd(i) \in visited

\* C12: in the session, after any sequence of run_analysis and save_matrix
\* calls, the stored matrix is None or is the matrix built from the stored
\* nodes and edges
C12_MatrixMatchesStoredData ==
    pc = "idle" =>
        \/ matrix = NoMatrix
        \/ /\ CreateAdjacencyMatrix(nodes, edges).err = ""
           /\ matrix = CreateAdjacencyMatrix(nodes, edges).matrix

====
